---------------------------- MODULE Spec2Model ----------------------------
(***************************************************************************)
(* Model of the fileconvert package: the conversion entry points of        *)
(* convert.py (convert_audio, convert_video, convert_image and the size    *)
(* report), get_file_size of pathkit.py, and the PDF text extraction of    *)
(* extract.py.                                                             *)
(*                                                                         *)
(* Strings are sequences of one-character strings, so that splitting,      *)
(* lower-casing, formatting and concatenation are computed, not assumed.   *)
(* Byte counts are little-endian sequences of base-1024 digits, since      *)
(* Python integers are unbounded and a petabyte does not fit 32 bits.      *)
(***************************************************************************)
EXTENDS Integers, Sequences, FiniteSets, TLC

VARIABLES
    pc,       \* position of the running call: "idle", a step label, "done"
    call,     \* the entry point called and its arguments
    world,    \* the files and external tools the call meets
    fmt,      \* local output_format of the converters
    image,    \* mode of the in-memory image of convert_image ("none" before open)
    saves,    \* results of the image.save attempts of this call, in order
    dest,     \* the destination file
    log,      \* effects outside the process, in order (opens, decodes, processes)
    stdout,   \* lines printed, in order
    outcome,  \* "none" while running, "returned", or the exception that escaped
    raisedAt, \* the step label the escaping exception was raised in
    text,     \* local text of the extractors
    handles,  \* handles the call opened for reading and has not released
    ret       \* the value returned

vars ==
    <<pc, call, world, fmt, image, saves, dest, log, stdout, outcome, raisedAt, text,
      handles, ret>>

---------------------------------------------------------------------------
(* Characters and strings *)

UpperToLower ==
    [c \in {"J", "P", "G", "D", "F", "N", "O", "C", "X"} |->
        CASE c = "J" -> "j" [] c = "P" -> "p" [] c = "G" -> "g"
          [] c = "D" -> "d" [] c = "F" -> "f" [] c = "N" -> "n"
          [] c = "O" -> "o" [] c = "C" -> "c" [] c = "X" -> "x"]

\* str.lower(), character by character
LowerChar(c) == IF c \in DOMAIN UpperToLower THEN UpperToLower[c] ELSE c

Lower(s) == [k \in 1..Len(s) |-> LowerChar(s[k])]

\* str.rfind(c) + 1: the last position of c in s, 0 when there is none
RFind(s, c) ==
    LET hits == {k \in 1..Len(s) : s[k] = c}
    IN  IF hits = {} THEN 0 ELSE CHOOSE k \in hits : \A j \in hits : j <= k

\* os.path.splitext(p)[1]: the extension with its dot, "" when the last dot
\* is not after the last separator or only dots precede it in the file name
SplitExt(p) ==
    LET sepIndex == RFind(p, "/")
        dotIndex == RFind(p, ".")
    IN  IF /\ dotIndex > sepIndex
           /\ \E k \in (sepIndex + 1)..(dotIndex - 1) : p[k] # "."
        THEN SubSeq(p, dotIndex, Len(p))
        ELSE <<>>

\* os.path.splitext(output_filepath)[1][1:].lower()
output_format_of(output_filepath) ==
    LET ext == SplitExt(output_filepath)
    IN  Lower(SubSeq(ext, 2, Len(ext)))

\* convert_image: jpg is the only alias convert.py rewrites
image_format(output_filepath) ==
    LET output_format == output_format_of(output_filepath)
    IN  IF output_format = <<"j", "p", "g">> THEN <<"j", "p", "e", "g">> ELSE output_format

\* the older convert_image of utility.py also folds heic and heif into heif
utility_image_format(output_filepath) ==
    LET output_format == output_format_of(output_filepath)
    IN  IF output_format = <<"j", "p", "g">> THEN <<"j", "p", "e", "g">>
        ELSE IF output_format \in {<<"h", "e", "i", "c">>, <<"h", "e", "i", "f">>}
             THEN <<"h", "e", "i", "f">>
             ELSE output_format

---------------------------------------------------------------------------
(* Byte counts and get_file_size *)

Base == 1024

\* longest byte count of the model, in base-1024 digits
MaxDigits == 7

DigitSet == {0, 1, 512, 1023}

\* normalised digit sequences: no leading (last) zero; <<>> is 0
Sizes ==
    {<<>>} \cup UNION {{d \in [1..n -> DigitSet] : d[n] # 0} : n \in 1..MaxDigits}

RECURSIVE Value(_)
\* the integer a digit sequence stands for (only used below 2^31)
Value(d) == IF d = <<>> THEN 0 ELSE Head(d) + Base * Value(Tail(d))

units == <<"B", "KB", "MB", "GB", "TB", "PB">>

UnitChars ==
    [u \in {"B", "KB", "MB", "GB", "TB", "PB"} |->
        CASE u = "B"  -> <<"B">>
          [] u = "KB" -> <<"K", "B">>
          [] u = "MB" -> <<"M", "B">>
          [] u = "GB" -> <<"G", "B">>
          [] u = "TB" -> <<"T", "B">>
          [] u = "PB" -> <<"P", "B">>]

DigitChar == <<"0", "1", "2", "3", "4", "5", "6", "7", "8", "9">>

RECURSIVE IntToChars(_)
\* str(n) of a non-negative integer
IntToChars(n) ==
    IF n < 10 THEN <<DigitChar[n + 1]>>
    ELSE IntToChars(n \div 10) \o <<DigitChar[(n % 10) + 1]>>

\* f"{x:.2f}" of x = whole + cents / 100, cents in 0..100 after rounding
FixedTwo(whole, cents) ==
    LET w == IF cents = 100 THEN whole + 1 ELSE whole
        c == IF cents = 100 THEN 0 ELSE cents
    IN  IntToChars(w) \o <<".">> \o <<DigitChar[(c \div 10) + 1], DigitChar[(c % 10) + 1]>>

\* round-half-even of q + part, part = (rem + eps) / den with 0 <= eps < 1
\* and eps > 0 iff sticky: what the correctly rounded "%.2f" does
RoundHalfEven(q, rem, den, sticky) ==
    IF 2 * rem > den \/ (2 * rem = den /\ sticky) THEN q + 1
    ELSE IF 2 * rem = den /\ q % 2 = 1 THEN q + 1
    ELSE q

RECURSIVE FracTimes100(_)
\* 100 * 0.f1 f2 ... (base 1024): integer part q, remainder rem / 1024 and
\* whether anything lies below the remainder
FracTimes100(frac) ==
    IF frac = <<>> THEN [q |-> 0, rem |-> 0, sticky |-> FALSE]
    ELSE LET low == FracTimes100(Tail(frac))
             t == Head(frac) * 100 + low.q
         IN  [q |-> t \div Base, rem |-> t % Base, sticky |-> low.rem # 0 \/ low.sticky]

\* value > 1024
MoreThan1024(value) ==
    /\ Len(value.int) >= 2
    /\ ~(value.int = <<0, 1>> /\ \A k \in 1..Len(value.frac) : value.frac[k] = 0)

\* value >= 1024, value = int . frac with int a normalised digit sequence
AtLeast1024(value) == Len(value.int) >= 2

\* value /= 1024.0: the lowest integer digit becomes the first fraction digit
Div1024(value) == [int |-> Tail(value.int), frac |-> <<Head(value.int)>> \o value.frac]

\* while value >= 1024 and i < len(units) - 1 (i counts from 0)
LoopGuard(value, i) == AtLeast1024(value) /\ i < Len(units) - 1

RECURSIVE ScaleLoop(_, _)
ScaleLoop(value, i) ==
    IF LoopGuard(value, i) THEN ScaleLoop(Div1024(value), i + 1)
    ELSE [value |-> value, i |-> i]

\* f"{value:.2f} {units[i]}"
FormatSize(value, i) ==
    LET f == FracTimes100(value.frac)
    IN  FixedTwo(Value(value.int), RoundHalfEven(f.q, f.rem, Base, f.sticky))
            \o <<" ">> \o UnitChars[units[i + 1]]

\* get_file_size of a file of size_bytes bytes: a bare string for an empty
\* file, the pair (string, size_bytes) otherwise
get_file_size(size_bytes) ==
    IF size_bytes = <<>> THEN [kind |-> "str", items |-> <<<<"0", "B">>>>]
    ELSE LET r == ScaleLoop([int |-> size_bytes, frac |-> <<>>], 0)
         IN  [kind |-> "tuple", items |-> <<FormatSize(r.value, r.i), size_bytes>>]

---------------------------------------------------------------------------
(* The size report *)

\* a, b as f"{a/b*100:.2f}" by long division (a, b positive, below 2^27);
\* exact arithmetic, which agrees with the float result away from ties
PercentChars(a, b) ==
    LET r0 == a % b
        d1 == (r0 * 10) \div b
        r1 == (r0 * 10) % b
        d2 == (r1 * 10) \div b
        r2 == (r1 * 10) % b
        d3 == (r2 * 10) \div b
        r3 == (r2 * 10) % b
        d4 == (r3 * 10) \div b
        r4 == (r3 * 10) % b
    IN  FixedTwo((a \div b) * 100 + d1 * 10 + d2,
                 RoundHalfEven(d3 * 10 + d4, r4, b, FALSE))

\* os.path.basename
Basename(p) == SubSeq(p, RFind(p, "/") + 1, Len(p))

\* a, b = v: a pair unpacks to its items, a two-character string to its two
\* characters; the second item's type is "int" only for a pair
Unpack2(v) ==
    IF v.kind = "tuple"
    THEN [ok |-> Len(v.items) = 2, first |-> v.items[1], second |-> v.items[2], type |-> "int"]
    ELSE LET chars == v.items[1]
         IN  [ok |-> Len(chars) = 2, first |-> <<chars[1]>>, second |-> <<chars[2]>>,
              type |-> "str"]

NoLine == [kind |-> "none", name0 |-> <<>>, size0 |-> <<>>, name1 |-> <<>>, size1 |-> <<>>,
           pct |-> <<>>]

WarnLine(kind) == [NoLine EXCEPT !.kind = kind]

\* print_conversion_info(*args), files[path] = [exists, size]: binding the
\* parameters fails unless exactly two arguments are passed; then both sizes
\* are read and unpacked and the line is formatted and printed
print_conversion_info(args, files) ==
    IF Len(args) # 2 THEN [exc |-> "TypeError", lines |-> <<>>]
    ELSE IF ~files[args[1]].exists \/ ~files[args[2]].exists
    THEN [exc |-> "FileNotFoundError", lines |-> <<>>]
    ELSE LET u0 == Unpack2(get_file_size(files[args[1]].size))
             u1 == Unpack2(get_file_size(files[args[2]].size))
         IN  IF ~u0.ok \/ ~u1.ok THEN [exc |-> "ValueError", lines |-> <<>>]
             ELSE IF u0.type # "int" \/ u1.type # "int"
             THEN [exc |-> "TypeError", lines |-> <<>>]
             ELSE [exc |-> "none",
                   lines |-> <<[kind |-> "report",
                                name0 |-> Basename(args[1]), size0 |-> u0.first,
                                name1 |-> Basename(args[2]), size1 |-> u1.first,
                                pct |-> PercentChars(Value(u1.second), Value(u0.second))
                                            \o <<"%">>]>>]

---------------------------------------------------------------------------
(* Calls, files and tools *)

InputPath == <<"i", ".", "p", "n", "g">>

\* destination paths: four without an extension (none, trailing dot, hidden
\* file, dot only in the directory), six with one
NoExtPaths ==
    { <<"o">>, <<"o", ".">>, <<".", "j", "p", "g">>, <<"a", ".", "b", "/", "o">> }

ExtPaths ==
    { <<"o", ".", "J", "P", "G">>, <<"o", ".", "j", "p", "g">>,
      <<"o", ".", "j", "p", "e", "g">>, <<"o", ".", "h", "e", "i", "c">>,
      <<"o", ".", "h", "e", "i", "f">>, <<"o", ".", "p", "n", "g">> }

DestPaths == NoExtPaths \cup ExtPaths

\* sizes of the files the report is printed for: 0, 1, 250000, 1000000
ReportSizes == { <<>>, <<1>>, <<144, 244>>, <<576, 976>> }

Modes == {"RGB", "RGBA", "LA"}

AlphaModes == {"RGBA", "LA"}

NoCall ==
    [op |-> "none", input |-> <<>>, output |-> <<>>, keep_metadata |-> FALSE,
     suppress_warn |-> FALSE, print_info |-> FALSE]

NoWorld ==
    [srcExists |-> FALSE, srcSize |-> <<>>, dstSize |-> <<>>, mode |-> "none", pages |-> <<>>,
     paras |-> <<>>, entries |-> <<>>, pics |-> <<>>]

NoDest ==
    [exists |-> FALSE, size |-> <<>>, mode |-> "none", content |-> "none", meta |-> FALSE,
     data |-> <<>>]

NoRet == [kind |-> "none", items |-> <<>>]

Event(ev, what, res) == [ev |-> ev, what |-> what, res |-> res]

Init ==
    /\ pc = "idle"
    /\ call = NoCall
    /\ world = NoWorld
    /\ fmt = <<>>
    /\ image = "none"
    /\ saves = <<>>
    /\ dest = NoDest
    /\ log = <<>>
    /\ stdout = <<>>
    /\ outcome = "none"
    /\ raisedAt = "none"
    /\ text = <<>>
    /\ handles = {}
    /\ ret = NoRet

\* an exception leaves the entry point
Raise(exc, at) ==
    /\ pc' = "done"
    /\ outcome' = exc
    /\ raisedAt' = at

\* the entry point returns None
Return ==
    /\ pc' = "done"
    /\ outcome' = "returned"
    /\ raisedAt' = "none"

\* the files as the report finds them
Files ==
    [p \in {call.input, call.output} |->
        IF p = call.output THEN [exists |-> dest.exists, size |-> dest.size]
        ELSE [exists |-> world.srcExists, size |-> world.srcSize]]

\* if print_info: print_conversion_info()   -- called without arguments
Report(at) ==
    LET r == print_conversion_info(<<>>, Files)
    IN  /\ stdout' = stdout \o r.lines
        /\ IF r.exc = "none" THEN Return ELSE Raise(r.exc, at)

\* the last lines of each converter
Conclude(at) ==
    IF call.print_info THEN Report(at)
    ELSE Return /\ stdout' = stdout

---------------------------------------------------------------------------
(* convert_audio *)

ConverterCall(op, first) ==
    /\ pc = "idle"
    /\ \E out \in DestPaths, keep \in BOOLEAN, quiet \in BOOLEAN, info \in BOOLEAN,
          exists \in BOOLEAN, mode \in Modes, size0 \in {<<>>, <<576, 976>>} :
        /\ op = "convert_image" \/ (~keep /\ ~quiet /\ mode = "RGB")
        /\ call' = [op |-> op, input |-> InputPath, output |-> out, keep_metadata |-> keep,
                    suppress_warn |-> quiet, print_info |-> info]
        /\ world' = [NoWorld EXCEPT !.srcExists = exists, !.srcSize = size0,
                                    !.dstSize = <<144, 244>>, !.mode = mode]
    /\ pc' = first
    /\ UNCHANGED <<fmt, image, saves, dest, log, stdout, outcome, raisedAt, text, handles, ret>>

ConvertAudioCall == ConverterCall("convert_audio", "a_resolve")

\* output_format = ...; if not output_format: raise ValueError
ResolveStep(at, next) ==
    /\ pc = at
    /\ fmt' = output_format_of(call.output)
    /\ IF fmt' = <<>>
       THEN Raise("ValueError", at)
       ELSE pc' = next /\ UNCHANGED <<outcome, raisedAt>>
    /\ UNCHANGED <<call, world, image, saves, dest, log, stdout, text, handles, ret>>

AudioResolve == ResolveStep("a_resolve", "a_convert")

Written(mode) ==
    [NoDest EXCEPT !.exists = TRUE, !.size = world.dstSize, !.mode = mode, !.content = "full"]

Partial == [NoDest EXCEPT !.exists = TRUE, !.content = "partial"]

\* audio = AudioSegment.from_file(input_filepath); audio.export(...)
AudioConvert ==
    /\ pc = "a_convert"
    /\ \E decode \in {"ok", "CouldntDecodeError"}, export \in {"ok", "CouldntEncodeError"} :
        IF ~world.srcExists
        THEN /\ log' = log \o <<Event("open", "src", "FileNotFoundError")>>
             /\ Raise("FileNotFoundError", "a_convert")
             /\ dest' = dest
        ELSE IF decode # "ok"
        THEN /\ log' = log \o <<Event("open", "src", "ok"), Event("decode", "src", decode)>>
             /\ Raise(decode, "a_convert")
             /\ dest' = dest
        ELSE /\ log' = log \o <<Event("open", "src", "ok"), Event("decode", "src", "ok"),
                                Event("encode", "dest", export)>>
             /\ IF export # "ok"
                THEN Raise(export, "a_convert") /\ dest' = Partial
                ELSE /\ pc' = "a_report"
                     /\ dest' = Written("none")
                     /\ UNCHANGED <<outcome, raisedAt>>
    /\ UNCHANGED <<call, world, fmt, image, saves, stdout, text, handles, ret>>

AudioReport ==
    /\ pc = "a_report"
    /\ Conclude("a_report")
    /\ UNCHANGED <<call, world, fmt, image, saves, dest, log, text, handles, ret>>

---------------------------------------------------------------------------
(* convert_video *)

ConvertVideoCall == ConverterCall("convert_video", "v_resolve")

VideoResolve == ResolveStep("v_resolve", "v_run")

\* subprocess.run(..., check=False) never raises for the exit code
ReturnCodeIgnored(res) == FALSE

\* subprocess.run(..., check=True) raises CalledProcessError for a non-zero exit
ReturnCodeRaises(res) == res \in {"nonzero", "nonzero_partial"}

\* the ways the transcoder can end: not installed, exit 0 with the output
\* written, non-zero exit with nothing or a truncated output left behind
FfmpegResults == IF world.srcExists THEN {"absent", "ok", "nonzero", "nonzero_partial"}
                 ELSE {"absent", "nonzero"}

\* command = ["ffmpeg", "-y", ...]; subprocess.run(command, check=True)
VideoRun ==
    /\ pc = "v_run"
    /\ \E res \in FfmpegResults :
        /\ log' = Append(log, Event("run", "ffmpeg", res))
        /\ dest' = CASE res = "ok" -> Written("none")
                     [] res = "nonzero_partial" -> Partial
                     [] OTHER -> dest
        /\ IF res = "absent" THEN Raise("FileNotFoundError", "v_run")
           ELSE IF ReturnCodeRaises(res) THEN Raise("CalledProcessError", "v_run")
           ELSE pc' = "v_report" /\ UNCHANGED <<outcome, raisedAt>>
    /\ UNCHANGED <<call, world, fmt, image, saves, stdout, text, handles, ret>>

VideoReport ==
    /\ pc = "v_report"
    /\ Conclude("v_report")
    /\ UNCHANGED <<call, world, fmt, image, saves, dest, log, text, handles, ret>>

---------------------------------------------------------------------------
(* convert_image *)

ConvertImageCall == ConverterCall("convert_image", "i_open")

\* image = Image.open(input_filepath)   -- before the extension is looked at
ImageOpen ==
    /\ pc = "i_open"
    /\ IF world.srcExists
       THEN /\ log' = Append(log, Event("open", "src", "ok"))
            /\ image' = world.mode
            /\ pc' = "i_resolve"
            /\ UNCHANGED <<outcome, raisedAt>>
       ELSE /\ log' = Append(log, Event("open", "src", "FileNotFoundError"))
            /\ image' = image
            /\ Raise("FileNotFoundError", "i_open")
    /\ UNCHANGED <<call, world, fmt, saves, dest, stdout, text, handles, ret>>

\* output_format = ...; if not output_format: raise ValueError; jpg -> jpeg
ImageResolve ==
    /\ pc = "i_resolve"
    /\ fmt' = image_format(call.output)
    /\ IF fmt' = <<>>
       THEN Raise("ValueError", "i_resolve")
       ELSE pc' = "i_save" /\ UNCHANGED <<outcome, raisedAt>>
    /\ UNCHANGED <<call, world, image, saves, dest, log, stdout, text, handles, ret>>

Jpeg == <<"j", "p", "e", "g">>

\* a message is its words in order
ModeMessage(mode) == <<"cannot", "write", "mode", mode, "as", "JPEG">>

DiskMessage == <<"No", "space", "left", "on", "device">>

SaveOk == [exc |-> "none", msg |-> <<>>]

\* image.save(output_filepath, format=output_format, quality=quality) as the
\* image library answers it: the JPEG encoder refuses every mode with an alpha
\* channel, naming the mode; the write itself can fail (OSError) and the
\* format token can be one no encoder is registered for (KeyError)
SaveResults(mode, format) ==
    IF format = Jpeg /\ mode \in AlphaModes
    THEN { [exc |-> "OSError", msg |-> ModeMessage(mode)],
           [exc |-> "OSError", msg |-> DiskMessage] }
    ELSE { SaveOk, [exc |-> "OSError", msg |-> DiskMessage],
           [exc |-> "KeyError", msg |-> format] }

\* needle in str(e)
Contains(needle, s) ==
    \E k \in 0..(Len(s) - Len(needle)) : SubSeq(s, k + 1, k + Len(needle)) = needle

\* except OSError as e: if 'cannot write mode RGBA' in str(e)
HandlesRGBA(r) ==
    r.exc = "OSError" /\ Contains(<<"cannot", "write", "mode", "RGBA">>, r.msg)

\* an exception of the first save that leaves the try statement: one that is
\* no OSError; an OSError the handler does not recognise falls out of the
\* handler's if and is dropped
Unhandled(r) == r.exc \notin {"none", "OSError"}

\* try: image.save(...)  except OSError as e: ...
ImageSave ==
    /\ pc = "i_save"
    /\ \E r \in SaveResults(image, fmt) :
        /\ saves' = Append(saves, r)
        /\ log' = Append(log, Event("save", "dest", r.exc))
        /\ dest' = IF r = SaveOk THEN Written(image) ELSE dest
        /\ IF HandlesRGBA(r) THEN pc' = "i_fallback" /\ UNCHANGED <<outcome, raisedAt>>
           ELSE IF Unhandled(r) THEN Raise(r.exc, "i_save")
           ELSE pc' = "i_meta" /\ UNCHANGED <<outcome, raisedAt>>
    /\ UNCHANGED <<call, world, fmt, image, stdout, text, handles, ret>>

\* image.convert('RGB')
ConvertRGB(mode) == "RGB"

\* the handler: warn, image = image.convert('RGB'), image.save(...) again
ImageFallback ==
    /\ pc = "i_fallback"
    /\ stdout' = IF call.suppress_warn THEN stdout ELSE Append(stdout, WarnLine("warn_rgba"))
    /\ image' = ConvertRGB(image)
    /\ \E r \in SaveResults(image', fmt) :
        /\ saves' = Append(saves, r)
        /\ log' = Append(log, Event("save", "dest", r.exc))
        /\ dest' = IF r = SaveOk THEN Written(image') ELSE dest
        /\ IF r.exc # "none" THEN Raise(r.exc, "i_fallback")
           ELSE pc' = "i_meta" /\ UNCHANGED <<outcome, raisedAt>>
    /\ UNCHANGED <<call, world, fmt, text, handles, ret>>

\* how the metadata tool can end: not installed, exit 0 with the tags copied,
\* non-zero exit; it cannot succeed on a destination that does not exist
ExiftoolResults == IF dest.exists THEN {"absent", "ok", "nonzero"} ELSE {"absent", "nonzero"}

\* if keep_metadata: try: subprocess.run(['exiftool', ...], check=True)
\* except FileNotFoundError / CalledProcessError: warn unless suppress_warn
ImageMetadata ==
    /\ pc = "i_meta"
    /\ IF call.keep_metadata
       THEN \E res \in ExiftoolResults :
               /\ log' = Append(log, Event("run", "exiftool", res))
               /\ dest' = IF res = "ok" THEN [dest EXCEPT !.meta = TRUE] ELSE dest
               /\ stdout' = CASE res = "ok" -> stdout
                              [] call.suppress_warn -> stdout
                              [] res = "absent" -> Append(stdout, WarnLine("warn_no_exiftool"))
                              [] OTHER -> Append(stdout, WarnLine("warn_exiftool_failed"))
       ELSE UNCHANGED <<log, dest, stdout>>
    /\ pc' = "i_report"
    /\ UNCHANGED <<call, world, fmt, image, saves, outcome, raisedAt, text, handles, ret>>

ImageReport ==
    /\ pc = "i_report"
    /\ Conclude("i_report")
    /\ UNCHANGED <<call, world, fmt, image, saves, dest, log, text, handles, ret>>

---------------------------------------------------------------------------
(* get_file_size and print_conversion_info called directly *)

\* size_bytes = os.path.getsize(filepath); ...
GetFileSize ==
    /\ pc = "idle"
    /\ \E exists \in BOOLEAN, size \in Sizes :
        /\ exists \/ size = <<>>
        /\ call' = [NoCall EXCEPT !.op = "get_file_size", !.input = InputPath]
        /\ world' = [NoWorld EXCEPT !.srcExists = exists, !.srcSize = size]
        /\ log' = Append(log, Event("stat", "src", IF exists THEN "ok" ELSE "FileNotFoundError"))
        /\ IF exists
           THEN Return /\ ret' = get_file_size(size)
           ELSE Raise("FileNotFoundError", "get_file_size") /\ ret' = ret
    /\ UNCHANGED <<fmt, image, saves, dest, stdout, text, handles>>

PrintConversionInfo ==
    /\ pc = "idle"
    /\ \E out \in ExtPaths, size0 \in ReportSizes, size1 \in ReportSizes :
        LET c == [NoCall EXCEPT !.op = "print_conversion_info", !.input = InputPath,
                                !.output = out]
            r == print_conversion_info(
                    <<c.input, c.output>>,
                    [p \in {c.input, c.output} |->
                        [exists |-> TRUE, size |-> IF p = c.output THEN size1 ELSE size0]])
        IN  /\ call' = c
            /\ world' = [NoWorld EXCEPT !.srcExists = TRUE, !.srcSize = size0,
                                        !.dstSize = size1]
            /\ dest' = [NoDest EXCEPT !.exists = TRUE, !.size = size1, !.content = "full"]
            /\ log' = log \o <<Event("stat", "src", "ok"), Event("stat", "dest", "ok")>>
            /\ stdout' = stdout \o r.lines
            /\ IF r.exc = "none" THEN Return ELSE Raise(r.exc, "print_conversion_info")
    /\ UNCHANGED <<fmt, image, saves, text, handles, ret>>

---------------------------------------------------------------------------
(* extract_text_from_pdf *)

\* most pages of a document of the model
MaxPages == 3

\* page.extract_text(): None, '' or a text
NoneText == [none |-> TRUE, s |-> <<>>]

PageTexts ==
    { NoneText, [none |-> FALSE, s |-> <<>>], [none |-> FALSE, s |-> <<"a">>],
      [none |-> FALSE, s |-> <<"b", "\n">>] }

PageLists == UNION {[1..n -> PageTexts] : n \in 0..MaxPages}

PdfInputs ==
    { <<"a", ".", "p", "d", "f">>, <<"a", ".", "P", "D", "F">>,
      <<"a", ".", "d", "o", "c", "x">>, <<"p", "d", "f">> }

TxtPath == <<"o", ".", "t", "x", "t">>

\* s.endswith(suffix)
EndsWith(s, suffix) ==
    Len(s) >= Len(suffix) /\ SubSeq(s, Len(s) - Len(suffix) + 1, Len(s)) = suffix

\* if not input_filepath.lower().endswith('pdf'): the suffix without its dot
RejectsInputNoDot(input_filepath, suffix) ==
    ~EndsWith(Lower(input_filepath), Tail(suffix))

\* if not input_filepath.lower().endswith('.pdf')
RejectsInput(input_filepath, suffix) == ~EndsWith(Lower(input_filepath), suffix)

DotPdf == <<".", "p", "d", "f">>

DotDocx == <<".", "d", "o", "c", "x">>

\* page.extract_text() or ''
TextOrEmpty(page) == IF page.none \/ page.s = <<>> THEN <<>> ELSE page.s

RECURSIVE ReadPages(_, _)
\* for page in reader.pages: text += page.extract_text() or ''
ReadPages(acc, pages) ==
    IF pages = <<>> THEN acc
    ELSE ReadPages(acc \o TextOrEmpty(Head(pages)), Tail(pages))

ExtractTextFromPdfCall ==
    /\ pc = "idle"
    /\ \E input \in PdfInputs, out \in {<<>>, TxtPath}, exists \in BOOLEAN,
          pages \in PageLists :
        /\ exists \/ pages = <<>>
        /\ call' = [NoCall EXCEPT !.op = "extract_text_from_pdf", !.input = input,
                                  !.output = out]
        /\ world' = [NoWorld EXCEPT !.srcExists = exists, !.pages = pages]
    /\ pc' = "p_check"
    /\ UNCHANGED <<fmt, image, saves, dest, log, stdout, outcome, raisedAt, text, handles, ret>>

\* if not input_filepath.lower().endswith('.pdf'): raise ValueError
PdfTextCheck ==
    /\ pc = "p_check"
    /\ IF RejectsInput(call.input, DotPdf)
       THEN Raise("ValueError", "p_check")
       ELSE pc' = "p_read" /\ UNCHANGED <<outcome, raisedAt>>
    /\ UNCHANGED <<call, world, fmt, image, saves, dest, log, stdout, text, handles, ret>>

\* with open(input_filepath, 'rb') as file: reader = ...; text = ''; for ...
PdfTextRead ==
    /\ pc = "p_read"
    /\ IF ~world.srcExists
       THEN /\ log' = Append(log, Event("open", "src", "FileNotFoundError"))
            /\ text' = text
            /\ Raise("FileNotFoundError", "p_read")
       ELSE \E parse \in {"ok", "PdfReadError"} :
               /\ log' = log \o <<Event("open", "src", "ok"), Event("parse", "src", parse),
                                  Event("close", "src", "ok")>>
               /\ IF parse = "ok"
                  THEN /\ text' = ReadPages(<<>>, world.pages)
                       /\ pc' = "p_write"
                       /\ UNCHANGED <<outcome, raisedAt>>
                  ELSE /\ text' = text
                       /\ Raise(parse, "p_read")
    /\ UNCHANGED <<call, world, fmt, image, saves, dest, stdout, handles, ret>>

\* if output_filepath != '': with open(..., 'w') as f: f.write(text); return text
PdfTextWrite ==
    /\ pc = "p_write"
    /\ IF call.output # <<>>
       THEN /\ log' = log \o <<Event("open", "dest", "ok"), Event("close", "dest", "ok")>>
            /\ dest' = [NoDest EXCEPT !.exists = TRUE, !.content = "full", !.data = text]
       ELSE UNCHANGED <<log, dest>>
    /\ ret' = [kind |-> "text", items |-> <<text>>]
    /\ Return
    /\ UNCHANGED <<call, world, fmt, image, saves, stdout, text, handles>>

---------------------------------------------------------------------------
(* extract_text_from_doc *)

DocInputs ==
    { <<"a", ".", "d", "o", "c", "x">>, <<"a", ".", "D", "O", "C", "X">>,
      <<"a", ".", "d", "o", "c">>, <<"a", ".", "p", "d", "f">>, <<"d", "o", "c", "x">> }

\* paragraph texts of a document
ParaTexts == { <<>>, <<"a">>, <<"b">> }

ParaLists == UNION {[1..n -> ParaTexts] : n \in 0..MaxPages}

RECURSIVE JoinNewline(_)
\* "\n".join(para.text for para in doc.paragraphs)
JoinNewline(texts) ==
    IF texts = <<>> THEN <<>>
    ELSE IF Tail(texts) = <<>> THEN Head(texts)
    ELSE Head(texts) \o <<"\n">> \o JoinNewline(Tail(texts))

ExtractTextFromDocCall ==
    /\ pc = "idle"
    /\ \E input \in DocInputs, out \in {<<>>, TxtPath}, exists \in BOOLEAN,
          paras \in ParaLists :
        /\ exists \/ paras = <<>>
        /\ call' = [NoCall EXCEPT !.op = "extract_text_from_doc", !.input = input,
                                  !.output = out]
        /\ world' = [NoWorld EXCEPT !.srcExists = exists, !.paras = paras]
    /\ pc' = "d_check"
    /\ UNCHANGED <<fmt, image, saves, dest, log, stdout, outcome, raisedAt, text, handles, ret>>

\* if not input_filepath.lower().endswith('.docx'): raise ValueError
DocTextCheck ==
    /\ pc = "d_check"
    /\ IF RejectsInput(call.input, DotDocx)
       THEN Raise("ValueError", "d_check")
       ELSE pc' = "d_read" /\ UNCHANGED <<outcome, raisedAt>>
    /\ UNCHANGED <<call, world, fmt, image, saves, dest, log, stdout, text, handles, ret>>

\* doc = Document(input_filepath); text = "\n".join(...): the package is
\* opened, read and closed inside Document()
DocTextRead ==
    /\ pc = "d_read"
    /\ IF ~world.srcExists
       THEN /\ log' = Append(log, Event("open", "src", "PackageNotFoundError"))
            /\ text' = text
            /\ Raise("PackageNotFoundError", "d_read")
       ELSE /\ log' = log \o <<Event("open", "src", "ok"), Event("parse", "src", "ok"),
                               Event("close", "src", "ok")>>
            /\ text' = JoinNewline(world.paras)
            /\ pc' = "d_write"
            /\ UNCHANGED <<outcome, raisedAt>>
    /\ UNCHANGED <<call, world, fmt, image, saves, dest, stdout, handles, ret>>

\* if output_filepath != '': with open(..., 'w') as f: f.write(text); return text
DocTextWrite ==
    /\ pc = "d_write"
    /\ IF call.output # <<>>
       THEN /\ log' = log \o <<Event("open", "dest", "ok"), Event("close", "dest", "ok")>>
            /\ dest' = [NoDest EXCEPT !.exists = TRUE, !.content = "full", !.data = text]
       ELSE UNCHANGED <<log, dest>>
    /\ ret' = [kind |-> "text", items |-> <<text>>]
    /\ Return
    /\ UNCHANGED <<call, world, fmt, image, saves, stdout, text, handles>>

---------------------------------------------------------------------------
(* Images in memory: a mode and one row of pixels *)

\* most images of a document of the model
MaxImages == 3

\* most pages of a document with images
MaxImagePages == 2

BlackPixel == <<0, 0, 0>>

Pics ==
    { [mode |-> "RGB", px |-> <<BlackPixel>>],
      [mode |-> "RGB", px |-> <<BlackPixel, <<0, 0, 1>>>>],
      [mode |-> "RGBA", px |-> <<<<0, 0, 0, 255>>>>],
      [mode |-> "L", px |-> <<<<7>>>>] }

\* image.convert("RGB"): alpha is dropped, a gray level fills the three channels
ToRGB(pic) ==
    [mode |-> "RGB",
     px |-> [k \in 1..Len(pic.px) |->
                IF pic.mode = "L" THEN <<pic.px[k][1], pic.px[k][1], pic.px[k][1]>>
                ELSE SubSeq(pic.px[k], 1, 3)]]

\* Image.new("RGB", image.size, (0, 0, 0))
NewBlack(size) == [mode |-> "RGB", px |-> [k \in 1..size |-> BlackPixel]]

Abs(x) == IF x < 0 THEN 0 - x ELSE x

\* ImageChops.difference(a, b): abs(a - b), channel by channel
Difference(a, b) ==
    [mode |-> a.mode,
     px |-> [k \in 1..Len(a.px) |-> [c \in 1..Len(a.px[k]) |-> Abs(a.px[k][c] - b.px[k][c])]]]

\* image.getbbox(): None when every channel of every pixel is 0, else the
\* box (left, upper, right, lower) around the pixels that are not
GetBBox(pic) ==
    LET lit == {k \in 1..Len(pic.px) : \E c \in 1..Len(pic.px[k]) : pic.px[k][c] # 0}
    IN  IF lit = {} THEN [none |-> TRUE, box |-> <<>>]
        ELSE [none |-> FALSE,
              box |-> << (CHOOSE k \in lit : \A j \in lit : k <= j) - 1, 0,
                         CHOOSE k \in lit : \A j \in lit : j <= k, 1 >>]

\* the filter left out: no image is taken for black
NeverBlack(pic) == FALSE

\* black_bg = ...; diff = ...; if diff.getbbox() is None
PureBlack(pic) == GetBBox(Difference(pic, NewBlack(Len(pic.px)))).none

Handle(kind, id) == [kind |-> kind, id |-> id]

PicLists == UNION {[1..n -> Pics] : n \in 0..MaxImages}

---------------------------------------------------------------------------
(* extract_images_from_doc *)

WordMedia == <<"w", "o", "r", "d", "/", "m", "e", "d", "i", "a", "/">>

EntryNames ==
    { WordMedia \o <<"a", ".", "p", "n", "g">>, WordMedia \o <<"a", ".", "P", "N", "G">>,
      WordMedia \o <<"a", ".", "e", "m", "f">>, <<"w", "o", "r", "d", "/", "d", ".", "x", "m", "l">>,
      <<"m", "e", "d", "i", "a", "/", "a", ".", "p", "n", "g">> }

RasterSuffixes ==
    { <<".", "p", "n", "g">>, <<".", "j", "p", "e", "g">>, <<".", "j", "p", "g">>,
      <<".", "b", "m", "p">>, <<".", "g", "i", "f">> }

EntryPics == { [mode |-> "RGB", px |-> <<BlackPixel>>], [mode |-> "L", px |-> <<<<7>>>>] }

Entries == [filename : EntryNames, pic : EntryPics]

EntryLists == UNION {[1..n -> Entries] : n \in 0..MaxImages}

\* s.startswith(prefix)
StartsWith(s, prefix) == Len(s) >= Len(prefix) /\ SubSeq(s, 1, Len(prefix)) = prefix

\* filename.startswith("word/media/") and filename.lower().endswith((...))
IsMedia(filename) ==
    /\ StartsWith(filename, WordMedia)
    /\ \E suffix \in RasterSuffixes : EndsWith(Lower(filename), suffix)

RECURSIVE DocLoop(_, _, _)
\* for file_info in docx_zip.infolist(): ... with docx_zip.open(file_info) as
\* img_file: image = Image.open(...); images.append(image.copy()); image.close()
DocLoop(acc, entries, k) ==
    IF k > Len(entries) THEN acc
    ELSE IF ~IsMedia(entries[k].filename) THEN DocLoop(acc, entries, k + 1)
    ELSE LET opened == acc.open \cup {Handle("entry", k), Handle("image", k)}
             closed == (opened \ {Handle("image", k)}) \ {Handle("entry", k)}
         IN  DocLoop([images |-> Append(acc.images, entries[k].pic), open |-> closed],
                     entries, k + 1)

ExtractImagesFromDocCall ==
    /\ pc = "idle"
    /\ \E input \in DocInputs, exists \in BOOLEAN, entries \in EntryLists :
        /\ exists \/ entries = <<>>
        /\ call' = [NoCall EXCEPT !.op = "extract_images_from_doc", !.input = input]
        /\ world' = [NoWorld EXCEPT !.srcExists = exists, !.entries = entries]
    /\ pc' = "e_check"
    /\ UNCHANGED <<fmt, image, saves, dest, log, stdout, outcome, raisedAt, text, handles, ret>>

\* if not input_filepath.lower().endswith('.docx'): raise ValueError
DocImagesCheck ==
    /\ pc = "e_check"
    /\ IF RejectsInput(call.input, DotDocx)
       THEN Raise("ValueError", "e_check")
       ELSE pc' = "e_read" /\ UNCHANGED <<outcome, raisedAt>>
    /\ UNCHANGED <<call, world, fmt, image, saves, dest, log, stdout, text, handles, ret>>

\* images = []; with zipfile.ZipFile(input_filepath, 'r') as docx_zip: ...;
\* return images
DocImagesRead ==
    /\ pc = "e_read"
    /\ IF ~world.srcExists
       THEN /\ log' = Append(log, Event("open", "src", "FileNotFoundError"))
            /\ UNCHANGED <<handles, ret>>
            /\ Raise("FileNotFoundError", "e_read")
       ELSE LET zip == Handle("zip", 0)
                r == DocLoop([images |-> <<>>, open |-> handles \cup {zip}], world.entries, 1)
            IN  /\ log' = log \o <<Event("open", "src", "ok"), Event("parse", "src", "ok"),
                                   Event("close", "src", "ok")>>
                /\ handles' = r.open \ {zip}
                /\ ret' = [kind |-> "images", items |-> r.images]
                /\ Return
    /\ UNCHANGED <<call, world, fmt, image, saves, dest, stdout, text>>

---------------------------------------------------------------------------
(* extract_images_from_pdf *)

\* the pages of a document: the images in document order, cut into pages
PagesOf(flat, cut) ==
    [i \in 1..Len(cut) |-> SubSeq(flat, (IF i = 1 THEN 0 ELSE cut[i - 1]) + 1, cut[i])]

PageCuts(n, len) ==
    { cut \in [1..n -> 0..len] :
        /\ \A i \in 1..n : i > 1 => cut[i - 1] <= cut[i]
        /\ IF n = 0 THEN len = 0 ELSE cut[n] = len }

RECURSIVE PageLoop(_, _, _)
\* for img_index, img in enumerate(image_list): ...
\*     image = Image.open(BytesIO(image_bytes)).convert("RGB")
\*     if diff.getbbox() is None: continue
\*     images.append(image.copy()); image.close()
\* close() is called on the converted image; the image that Image.open
\* returned is dropped without a close
PageLoop(acc, image_list, img_index) ==
    IF img_index > Len(image_list) THEN acc
    ELSE LET xref == acc.n + 1
             opened == acc.open \cup {Handle("image", xref)}
             rgb == ToRGB(image_list[img_index])
         IN  IF PureBlack(rgb)
             THEN PageLoop([acc EXCEPT !.n = xref, !.open = opened], image_list, img_index + 1)
             ELSE PageLoop([images |-> Append(acc.images, rgb), n |-> xref,
                            open |-> opened \ {Handle("converted", xref)}],
                           image_list, img_index + 1)

RECURSIVE PdfLoop(_, _, _)
\* for page_index in range(len(doc)): page = doc[page_index]; image_list = ...
PdfLoop(acc, pages, page_index) ==
    IF page_index > Len(pages) THEN acc
    ELSE PdfLoop(PageLoop(acc, pages[page_index], 1), pages, page_index + 1)

ExtractImagesFromPdfCall ==
    /\ pc = "idle"
    /\ \E input \in PdfInputs, exists \in BOOLEAN, flat \in PicLists, n \in 0..MaxImagePages :
        \E cut \in PageCuts(n, Len(flat)) :
            /\ exists \/ n = 0
            /\ call' = [NoCall EXCEPT !.op = "extract_images_from_pdf", !.input = input]
            /\ world' = [NoWorld EXCEPT !.srcExists = exists, !.pics = PagesOf(flat, cut)]
    /\ pc' = "x_check"
    /\ UNCHANGED <<fmt, image, saves, dest, log, stdout, outcome, raisedAt, text, handles, ret>>

\* if not input_filepath.lower().endswith('.pdf'): raise ValueError
PdfImagesCheck ==
    /\ pc = "x_check"
    /\ IF RejectsInput(call.input, DotPdf)
       THEN Raise("ValueError", "x_check")
       ELSE pc' = "x_read" /\ UNCHANGED <<outcome, raisedAt>>
    /\ UNCHANGED <<call, world, fmt, image, saves, dest, log, stdout, text, handles, ret>>

\* images = []; doc = fitz.open(input_filepath); for ...; return images
\* Nothing closes doc or the opened images: they stay open until the
\* collector finalises them, which may be at the return or later.
PdfImagesRead ==
    /\ pc = "x_read"
    /\ IF ~world.srcExists
       THEN /\ log' = Append(log, Event("open", "src", "FileNotFoundError"))
            /\ UNCHANGED <<handles, ret>>
            /\ Raise("FileNotFoundError", "x_read")
       ELSE LET doc == Handle("doc", 0)
                r == PdfLoop([images |-> <<>>, n |-> 0, open |-> handles \cup {doc}],
                             world.pics, 1)
            IN  \E decode \in {"ok", "UnidentifiedImageError"}, collected \in BOOLEAN :
                    /\ decode = "ok" \/ (r.n > 0 /\ ~collected)
                    /\ log' = log \o <<Event("open", "src", "ok"), Event("parse", "src", decode)>>
                    /\ IF decode = "ok"
                       THEN /\ handles' = IF collected THEN {} ELSE r.open
                            /\ ret' = [kind |-> "images", items |-> r.images]
                            /\ Return
                       ELSE /\ handles' = handles \cup {doc}
                            /\ ret' = ret
                            /\ Raise(decode, "x_read")
    /\ UNCHANGED <<call, world, fmt, image, saves, dest, stdout, text>>

---------------------------------------------------------------------------

Next ==
    \/ ConvertAudioCall \/ AudioResolve \/ AudioConvert \/ AudioReport
    \/ ConvertVideoCall \/ VideoResolve \/ VideoRun \/ VideoReport
    \/ ConvertImageCall \/ ImageOpen \/ ImageResolve \/ ImageSave \/ ImageFallback
    \/ ImageMetadata \/ ImageReport
    \/ GetFileSize
    \/ PrintConversionInfo
    \/ ExtractTextFromPdfCall \/ PdfTextCheck \/ PdfTextRead \/ PdfTextWrite
    \/ ExtractTextFromDocCall \/ DocTextCheck \/ DocTextRead \/ DocTextWrite
    \/ ExtractImagesFromDocCall \/ DocImagesCheck \/ DocImagesRead
    \/ ExtractImagesFromPdfCall \/ PdfImagesCheck \/ PdfImagesRead

Spec == Init /\ [][Next]_vars

---------------------------------------------------------------------------
(* Properties *)

Converters == {"convert_audio", "convert_video", "convert_image"}

Done == pc = "done"

Runs(what) == SelectSeq(log, LAMBDA e : e.ev = "run" /\ e.what = what)

ReportLines == SelectSeq(stdout, LAMBDA l : l.kind = "report")

\* C1: a converter called with a destination path that has no extension
\* touches no file and starts no process, and ends in the missing-extension
\* error (ValueError).
C1_MissingExtensionFirst ==
    (call.op \in Converters /\ call.output \in NoExtPaths)
        => /\ log = <<>>
           /\ Done => (outcome = "ValueError" /\ raisedAt \in {"a_resolve", "v_resolve", "i_resolve"})

\* the message of a failed save names an alpha mode the format cannot hold
IndicatesAlphaMode(r) == \E m \in AlphaModes : r.msg = ModeMessage(m)

\* C2: a convert_image call whose first save fails with anything but the
\* unsupported-alpha-mode error ends in an error, never in a normal return.
C2_OtherSaveFailureFatal ==
    ( /\ Done
      /\ call.op = "convert_image"
      /\ saves # <<>>
      /\ saves[1].exc # "none"
      /\ ~IndicatesAlphaMode(saves[1]) )
        => outcome # "returned"

\* a save attempt that failed for a reason other than the image's mode
OtherFailure(r) == r.exc # "none" /\ ~IndicatesAlphaMode(r)

\* C3: for a source image with an alpha channel and a destination format
\* that forbids alpha (and no failure of another kind), convert_image makes
\* exactly two save attempts, the second one on a 3-channel image, which
\* writes the destination; the written image has no alpha channel.
C3_AlphaFallback ==
    ( /\ Done
      /\ call.op = "convert_image"
      /\ world.srcExists
      /\ world.mode \in AlphaModes
      /\ fmt = Jpeg
      /\ \A k \in 1..Len(saves) : ~OtherFailure(saves[k]) )
        => /\ Len(saves) = 2
           /\ saves[2] = SaveOk
           /\ image = "RGB"
           /\ dest.exists /\ dest.content = "full"
           /\ dest.mode \notin AlphaModes

\* the conversion proper of the finished call succeeded: the destination is
\* written in full and nothing was raised before the report
Converted ==
    /\ Done
    /\ call.op \in Converters
    /\ dest.exists /\ dest.content = "full"
    /\ raisedAt \in {"none", "a_report", "v_report", "i_report"}

\* C4: a converter called with print_info on a non-empty source whose
\* conversion succeeded prints exactly one report line, with the ratio
\* destination / source * 100 to two decimals ("25.00%" for 1000000 ->
\* 250000 bytes), and returns normally.
C4_ReportPrinted ==
    (Converted /\ call.print_info /\ world.srcSize # <<>>)
        => /\ outcome = "returned"
           /\ Len(ReportLines) = 1
           /\ ReportLines[1].pct
                = PercentChars(Value(dest.size), Value(world.srcSize)) \o <<"%">>
           /\ (world.srcSize = <<576, 976>> /\ dest.size = <<144, 244>>)
                => ReportLines[1].pct = <<"2", "5", ".", "0", "0", "%">>

MetadataWarnings ==
    SelectSeq(stdout, LAMBDA l : l.kind \in {"warn_no_exiftool", "warn_exiftool_failed"})

\* the destination as the save attempts of the call left it
AfterSaves ==
    IF saves # <<>> /\ saves[Len(saves)] = SaveOk THEN Written(image) ELSE NoDest

\* C5: a convert_image call with keep_metadata whose metadata tool is absent
\* or exits non-zero completes without error, leaves the destination as the
\* save step wrote it, and prints the metadata warning exactly when
\* suppress_warn is false.
C5_MetadataBestEffort ==
    ( /\ Done
      /\ call.op = "convert_image"
      /\ call.keep_metadata
      /\ Runs("exiftool") # <<>>
      /\ Runs("exiftool")[1].res \in {"absent", "nonzero"} )
        => /\ outcome = "returned"
           /\ dest = AfterSaves
           /\ Len(MetadataWarnings) = (IF call.suppress_warn THEN 0 ELSE 1)

\* C6: convert_video starts the transcoder at most once, exactly once when
\* the call gets past the extension check; a non-zero exit ends the call at
\* once in CalledProcessError, with nothing printed and the destination as
\* the process left it.
C6_VideoFailureFatal ==
    call.op = "convert_video"
        => /\ Len(Runs("ffmpeg")) <= 1
           /\ (pc = "v_report" \/ (Done /\ raisedAt # "v_resolve")) => Len(Runs("ffmpeg")) = 1
           /\ \A k \in 1..Len(Runs("ffmpeg")) :
                Runs("ffmpeg")[k].res \in {"nonzero", "nonzero_partial"}
                    => /\ Done
                       /\ outcome = "CalledProcessError"
                       /\ raisedAt = "v_run"
                       /\ stdout = <<>>
                       /\ dest = (IF Runs("ffmpeg")[k].res = "nonzero_partial"
                                  THEN Partial ELSE NoDest)

C6_Witness ==
    /\ Done
    /\ call.op = "convert_video"
    /\ call.print_info
    /\ Runs("ffmpeg") = <<Event("run", "ffmpeg", "nonzero_partial")>>
    /\ outcome = "CalledProcessError"

\* the extensions the claim names as aliases of one another
AliasClasses ==
    { { <<"o", ".", "J", "P", "G">>, <<"o", ".", "j", "p", "g">>,
        <<"o", ".", "j", "p", "e", "g">> },
      { <<"o", ".", "h", "e", "i", "c">>, <<"o", ".", "h", "e", "i", "f">> } }

\* C7: in convert_image the token resolved for a destination is the token
\* of every alias of its extension (JPG, jpg, jpeg; heic, heif), and
\* resolving a path that carries the token as its extension yields the token.
C7_AliasNormalization ==
    (call.op = "convert_image" /\ pc \in {"i_save", "i_fallback", "i_meta", "i_report"})
        => /\ \A class \in AliasClasses :
                call.output \in class => \A q \in class : image_format(q) = fmt
           /\ image_format(<<"o", ".">> \o fmt) = fmt

\* C8: get_file_size returns the pair (string, byte count) for every file,
\* ("0B", 0) for an empty one, so that unpacking it gives the string and the
\* integer count.
C8_PairForEverySize ==
    (Done /\ call.op = "get_file_size" /\ outcome = "returned")
        => /\ ret.kind = "tuple"
           /\ Len(ret.items) = 2
           /\ ret.items[2] = world.srcSize
           /\ Unpack2(ret).type = "int"
           /\ world.srcSize = <<>> => ret.items[1] = <<"0", "B">>

\* 1024^k as a digit sequence
Pow1024(k) == [j \in 1..(k + 1) |-> IF j = k + 1 THEN 1 ELSE 0]

\* a <= b for normalised digit sequences
DigitsLeq(a, b) ==
    \/ Len(a) < Len(b)
    \/ /\ Len(a) = Len(b)
       /\ \/ a = b
          \/ \E k \in 1..Len(a) :
                a[k] < b[k] /\ \A j \in (k + 1)..Len(a) : a[j] = b[j]

\* the largest k in 0..5 with 1024^k <= n
ExpectedSteps(n) ==
    CHOOSE k \in 0..5 :
        /\ DigitsLeq(Pow1024(k), n)
        /\ \A j \in 0..5 : DigitsLeq(Pow1024(j), n) => j <= k

Reverse(q) == [j \in 1..Len(q) |-> q[Len(q) + 1 - j]]

\* C9: for n >= 1 get_file_size divides by 1024 exactly k times, k the
\* largest number in 0..5 with 1024^k <= n, names the unit units[k], leaves a
\* scaled value below 1024 unless the unit is PB, and returns n unchanged;
\* 1536 gives "1.50 KB" and 1048576 gives "1.00 MB".
C9_UnitScaling ==
    (Done /\ call.op = "get_file_size" /\ outcome = "returned" /\ world.srcSize # <<>>)
        => LET n == world.srcSize
               k == ExpectedSteps(n)
               r == ScaleLoop([int |-> n, frac |-> <<>>], 0)
               s == ret.items[1]
           IN  /\ r.i = k
               /\ Len(r.value.frac) = k
               /\ Reverse(r.value.frac) \o r.value.int = n
               /\ k < 5 => Len(r.value.int) <= 1
               /\ EndsWith(s, <<" ">> \o UnitChars[units[k + 1]])
               /\ ret.items[2] = n
               /\ n = <<512, 1>> => s = <<"1", ".", "5", "0", " ", "K", "B">>
               /\ n = <<0, 0, 1>> => s = <<"1", ".", "0", "0", " ", "M", "B">>

C9_Witness ==
    /\ Done
    /\ call.op = "get_file_size"
    /\ Len(world.srcSize) = 7
    /\ ret.kind = "tuple"
    /\ EndsWith(ret.items[1], <<" ", "P", "B">>)

RECURSIVE JoinLines(_)
\* "\n".join(texts)
JoinLines(texts) ==
    IF texts = <<>> THEN <<>>
    ELSE IF Len(texts) = 1 THEN texts[1]
    ELSE texts[1] \o <<"\n">> \o JoinLines(Tail(texts))

\* C10: extract_text_from_pdf returns the page texts in page order joined
\* by newlines (n - 1 of them for n pages), a page without text counting as
\* the empty string.
C10_PagesJoinedByNewlines ==
    (Done /\ call.op = "extract_text_from_pdf" /\ outcome = "returned")
        => ret.items[1]
             = JoinLines([k \in 1..Len(world.pages) |-> TextOrEmpty(world.pages[k])])

Extractors ==
    {"extract_text_from_doc", "extract_text_from_pdf", "extract_images_from_doc",
     "extract_images_from_pdf"}

\* the extension of a path: what follows its last dot, nothing without a dot
FinalExtension(p) == IF RFind(p, ".") = 0 THEN <<>> ELSE SubSeq(p, RFind(p, ".") + 1, Len(p))

HandledExtension(op) ==
    IF op \in {"extract_text_from_doc", "extract_images_from_doc"} THEN <<"d", "o", "c", "x">>
    ELSE <<"p", "d", "f">>

ValidationStep(op) ==
    CASE op = "extract_text_from_doc" -> "d_check"
      [] op = "extract_text_from_pdf" -> "p_check"
      [] op = "extract_images_from_doc" -> "e_check"
      [] OTHER -> "x_check"

\* C11: an extractor called with an input whose extension, case ignored, is
\* not the one it handles opens, parses and writes nothing, holds no handle,
\* and ends in the error of its validation step (ValueError).
C11_WrongInputRejectedFirst ==
    (call.op \in Extractors /\ Lower(FinalExtension(call.input)) # HandledExtension(call.op))
        => /\ log = <<>>
           /\ dest = NoDest
           /\ handles = {}
           /\ ret = NoRet
           /\ pc \in {ValidationStep(call.op), "done"}
           /\ Done => (outcome = "ValueError" /\ raisedAt = ValidationStep(call.op))

C11_Witness ==
    /\ Done
    /\ call.op = "extract_images_from_pdf"
    /\ call.input = <<"a", ".", "d", "o", "c", "x">>
    /\ world.srcExists
    /\ outcome = "ValueError"

RECURSIVE Concat(_)
Concat(seqs) == IF seqs = <<>> THEN <<>> ELSE Head(seqs) \o Concat(Tail(seqs))

\* the colour of pixel k of an image as red, green, blue
Colour(pic, k) ==
    IF pic.mode = "L" THEN <<pic.px[k][1], pic.px[k][1], pic.px[k][1]>>
    ELSE <<pic.px[k][1], pic.px[k][2], pic.px[k][3]>>

SolidBlack(pic) == \A k \in 1..Len(pic.px) : Colour(pic, k) = <<0, 0, 0>>

Embedded == Concat(world.pics)

Survivors == SelectSeq(Embedded, LAMBDA pic : ~SolidBlack(pic))

\* C12: extract_images_from_pdf returns, as RGB images, exactly the embedded
\* images that are not solid black, page by page and in the order of each
\* page: none of them black, none that is not black missing, order kept.
C12_BlackImagesFiltered ==
    (Done /\ call.op = "extract_images_from_pdf" /\ outcome = "returned")
        => /\ ret.kind = "images"
           /\ Len(ret.items) = Len(Survivors)
           /\ \A k \in 1..Len(Survivors) :
                /\ ret.items[k].mode = "RGB"
                /\ Len(ret.items[k].px) = Len(Survivors[k].px)
                /\ \A j \in 1..Len(Survivors[k].px) : ret.items[k].px[j] = Colour(Survivors[k], j)

C12_Witness ==
    /\ Done
    /\ call.op = "extract_images_from_pdf"
    /\ outcome = "returned"
    /\ Len(world.pics) = 2
    /\ Len(world.pics[1]) = 2
    /\ ~SolidBlack(world.pics[1][1])
    /\ SolidBlack(world.pics[1][2])
    /\ world.pics[1][2].mode = "RGBA"
    /\ Len(world.pics[2]) = 1
    /\ world.pics[2][1].mode = "L"
    /\ Len(ret.items) = 2
    /\ ret.items[1] # ret.items[2]

\* C13: when an extractor returns its result, no handle the call opened for
\* reading is still open.
C13_HandlesReleasedAtReturn ==
    (Done /\ call.op \in Extractors /\ outcome = "returned") => handles = {}

\* C14: convert_image starts the metadata tool at most once, only when
\* keep_metadata is true, and only after a save attempt of the call has
\* written the destination.
C14_MetadataAfterWrite ==
    call.op = "convert_image"
        => /\ Len(Runs("exiftool")) <= 1
           /\ \A j \in 1..Len(log) :
                (log[j].ev = "run" /\ log[j].what = "exiftool")
                    => /\ call.keep_metadata
                       /\ \E k \in 1..(j - 1) : log[k].ev = "save" /\ log[k].res = "none"

=============================================================================
